---------------------------- MODULE Spec2Model ----------------------------
(***************************************************************************)
(* Model of djangoExample.py: CSVFile.get_dates and the three classmethods *)
(* of CalculateMixin (get_data_charts, grahp_specification_data,           *)
(* get_data_table).                                                        *)
(*                                                                         *)
(* Dates are datetime.date values, represented by their proleptic          *)
(* Gregorian ordinal (date.toordinal()): 0001-01-01 is 1 and 9999-12-31 is *)
(* 3652059.  Prices are numbers; the quotients the code computes with "/"  *)
(* are kept exact, as fractions in lowest terms (floating point rounding   *)
(* is abstracted).  A call's outcome is a record [kind, val] where kind is *)
(* "None", "list", "dict" or "raise" (val then names the exception).       *)
(***************************************************************************)
EXTENDS Integers, Sequences, FiniteSets, TLC

VARIABLES objects, today, dates, call, result

vars == <<objects, today, dates, call, result>>

-----------------------------------------------------------------------------
(* datetime.date *)

MINYEAR == 1
MAXYEAR == 9999

IsLeap(y) == (y % 4 = 0) /\ ((y % 100 # 0) \/ (y % 400 = 0))

DaysInMonth(y, m) ==
    IF m = 2 THEN (IF IsLeap(y) THEN 29 ELSE 28)
    ELSE IF m \in {4, 6, 9, 11} THEN 30 ELSE 31

DaysBeforeYear(y) ==
    ((y - 1) * 365) + ((y - 1) \div 4) - ((y - 1) \div 100) + ((y - 1) \div 400)

RECURSIVE DaysBeforeMonth(_, _)
DaysBeforeMonth(y, m) ==
    IF m = 1 THEN 0 ELSE DaysBeforeMonth(y, m - 1) + DaysInMonth(y, m - 1)

ymd2ord(y, m, d) == DaysBeforeYear(y) + DaysBeforeMonth(y, m) + d

MinOrdinal == ymd2ord(MINYEAR, 1, 1)
MaxOrdinal == ymd2ord(MAXYEAR, 12, 31)

\* The year of the date with ordinal n (first component of _ord2ymd).
ord2year(n) ==
    LET n0   == n - 1
        n400 == n0 \div 146097
        r400 == n0 % 146097
        n100 == r400 \div 36524
        r100 == r400 % 36524
        n4   == r100 \div 1461
        r4   == r100 % 1461
        n1   == r4 \div 365
        y    == (n400 * 400) + 1 + (n100 * 100) + (n4 * 4) + n1
    IN  IF n1 = 4 \/ n100 = 4 THEN y - 1 ELSE y

RECURSIVE MonthOf(_, _, _)
MonthOf(y, dayOfYear, m) ==
    IF dayOfYear <= DaysBeforeMonth(y, m) + DaysInMonth(y, m) THEN m
    ELSE MonthOf(y, dayOfYear, m + 1)

ord2ymd(n) ==
    LET y   == ord2year(n)
        doy == n - DaysBeforeYear(y)
        m   == MonthOf(y, doy, 1)
    IN  [year |-> y, month |-> m, day |-> doy - DaysBeforeMonth(y, m)]

-----------------------------------------------------------------------------
(* Outcomes of a call *)

None == [kind |-> "None", val |-> <<>>]
Raise(exc) == [kind |-> "raise", val |-> exc]
List(s) == [kind |-> "list", val |-> s]
Dict(d) == [kind |-> "dict", val |-> d]

-----------------------------------------------------------------------------
(* Arguments of get_dates: None, a date object, the empty string, or a     *)
(* string whose "-"-separated numeric fields are y, m, d.                  *)

NoneArg == [kind |-> "None", y |-> 0, m |-> 0, d |-> 0, ord |-> 0]
DateObj(n) == [kind |-> "date", y |-> 0, m |-> 0, d |-> 0, ord |-> n]
DateStr(y, m, d) == [kind |-> "str", y |-> y, m |-> m, d |-> d, ord |-> 0]
EmptyStr == [kind |-> "emptystr", y |-> 0, m |-> 0, d |-> 0, ord |-> 0]

\* Python truthiness of an argument: None and "" are falsy.
Truthy(a) == a.kind \in {"date", "str"}

\* datetime.datetime.strptime(s, "%Y-%m-%d").date()
strptime(s) ==
    IF /\ s.y >= MINYEAR /\ s.y <= MAXYEAR
       /\ s.m >= 1 /\ s.m <= 12
       /\ s.d >= 1 /\ s.d <= DaysInMonth(s.y, s.m)
    THEN DateObj(ymd2ord(s.y, s.m, s.d))
    ELSE Raise("ValueError")

\* date + timedelta(days=n); the date type raises OverflowError out of range.
DatePlusDays(ord, n) ==
    IF ord + n < MinOrdinal \/ ord + n > MaxOrdinal
    THEN Raise("OverflowError")
    ELSE DateObj(ord + n)

DEFAULT_DATE_DELTA_DAYS == 7

\* get_dates_loop with the loop test "date_from < date_to"
RECURSIVE get_dates_loop_exclusive(_, _, _)
get_dates_loop_exclusive(date_from, date_to, acc) ==
    IF date_from < date_to
    THEN LET next == DatePlusDays(date_from, 1)
         IN  IF next.kind = "raise" THEN next
             ELSE get_dates_loop_exclusive(next.ord, date_to,
                                           Append(acc, date_from))
    ELSE List(acc)

\* The while loop of get_dates: date_from and date_to are ordinals.
RECURSIVE get_dates_loop(_, _, _)
get_dates_loop(date_from, date_to, acc) ==
    IF date_from <= date_to
    THEN LET next == DatePlusDays(date_from, 1)
         IN  IF next.kind = "raise" THEN next
             ELSE get_dates_loop(next.ord, date_to, Append(acc, date_from))
    ELSE List(acc)

get_dates(now, date_from, date_to) ==
    LET df1 == IF Truthy(date_from) /\ date_from.kind = "str"
               THEN strptime(date_from) ELSE date_from
    IN  IF df1.kind = "raise" THEN df1 ELSE
        LET dt1 == IF Truthy(date_to) /\ date_to.kind = "str"
                   THEN strptime(date_to) ELSE date_to
        IN  IF dt1.kind = "raise" THEN dt1 ELSE
            LET dt2 == IF ~Truthy(dt1) THEN DateObj(now) ELSE dt1
                df2 == IF ~Truthy(df1)
                       THEN DatePlusDays(dt2.ord, 0 - DEFAULT_DATE_DELTA_DAYS)
                       ELSE df1
            IN  IF df2.kind = "raise" THEN df2
                ELSE get_dates_loop(df2.ord, dt2.ord, <<>>)

-----------------------------------------------------------------------------
(* Numbers: exact quotients, in lowest terms with a positive denominator *)

Abs(n) == IF n < 0 THEN 0 - n ELSE n

RECURSIVE GCD(_, _)
GCD(a, b) == IF b = 0 THEN a ELSE GCD(b, a % b)

\* n / d for d # 0
Frac(n, d) ==
    LET g == GCD(Abs(n), Abs(d))
        s == IF d < 0 THEN 0 - 1 ELSE 1
    IN  [num |-> (s * n) \div g, den |-> Abs(d) \div g]

Num(n) == [num |-> n, den |-> 1]

-----------------------------------------------------------------------------
(* Model classes and Django querysets.  A queryset is the sequence of its  *)
(* rows in the order the database returns them; filters keep that order.   *)

CURRENCY_FIELDS == (1 :> "avg_uah") @@ (2 :> "avg_usd") @@ (3 :> "avg_euro")

\* CURRENCY_FIELDS.get(int(currency)) for a truthy currency, else 'avg_uah'
CalculatingField(currency) ==
    IF currency # 0 THEN CURRENCY_FIELDS[currency] ELSE "avg_uah"

\* calculating_field.replace('avg_', '')
StripAvg(field) ==
    CASE field = "avg_uah"  -> "uah"
      [] field = "avg_usd"  -> "usd"
      [] field = "avg_euro" -> "euro"

NoClass == "None"

\* CSVFile.get_class_mapping().get(code)
get_class_mapping(code) ==
    CASE code = 2 -> "SheetGK"
      [] code = 3 -> "Balka"
      [] code = 4 -> "Schveller"
      [] code = 5 -> "Ugolok"
      [] code = 6 -> "ProfilTruba"
      [] code = 7 -> "KruglayaTruba"
      [] OTHER    -> NoClass

ProductClasses ==
    {"SheetGK", "Balka", "Schveller", "Ugolok", "ProfilTruba", "KruglayaTruba"}

ModelClasses == ProductClasses \cup {"CompositeIndex"}

\* The absent row (.first() / .last() of an empty queryset)
NoneObj == [date |-> 0]

first(qs) == IF qs = <<>> THEN NoneObj ELSE qs[1]
last(qs) == IF qs = <<>> THEN NoneObj ELSE qs[Len(qs)]

date_lte(r, d) == r.date <= d
date_gte(r, d) == r.date >= d

filter_date(qs, d) == SelectSeq(qs, LAMBDA r : r.date = d)
filter_date_lte(qs, d) == SelectSeq(qs, LAMBDA r : date_lte(r, d))
filter_date_gte(qs, d) == SelectSeq(qs, LAMBDA r : date_gte(r, d))
filter_date_range(qs, lo, hi) ==
    SelectSeq(qs, LAMBDA r : date_gte(r, lo) /\ date_lte(r, hi))
filter_year_gte(qs, y) == SelectSeq(qs, LAMBDA r : ord2year(r.date) >= y)
filter_year_lte(qs, y) == SelectSeq(qs, LAMBDA r : ord2year(r.date) <= y)

-----------------------------------------------------------------------------
(* CalculateMixin.get_data_charts *)

\* invalid_period with the test "len(dates) < 1"
invalid_period_empty_only(ds) == Len(ds) < 1

\* "Invalid period" (line 296)
invalid_period(ds) == Len(ds) < 2

\* standart_row falling back to the first row after the window start
standart_row_or_later(objs, cls, ds) ==
    LET before == last(filter_date_lte(objs[cls], ds[1]))
    IN  IF before # NoneObj THEN before
        ELSE first(filter_date_gte(objs[cls], ds[1]))

\* The row whose value is the 'standard' value (line 311)
standart_row(objs, cls, ds) == last(filter_date_lte(objs[cls], ds[1]))

\* step_value filling a missing day with the nearest earlier row of the window
step_value_nearest(data_from_db, step_date, calculating_field, standart_value) ==
    LET row == last(filter_date_lte(data_from_db, step_date))
    IN  IF row # NoneObj THEN row[calculating_field] ELSE standart_value

\* The value of one step (lines 322-324)
step_value(data_from_db, step_date, calculating_field, standart_value) ==
    LET row == first(filter_date(data_from_db, step_date))
    IN  IF row # NoneObj THEN row[calculating_field] ELSE standart_value

\* chart_value emitting 100 on a zero standard value
chart_value_hundred(value, standart_value) ==
    IF standart_value = 0
    THEN Num(100)
    ELSE Frac(value * 100, standart_value)

\* The number appended for one step (lines 325-328)
chart_value(value, standart_value) ==
    IF standart_value = 0
    THEN Num(value)
    ELSE Frac(value * 100, standart_value)

get_data_charts(objs, cls, ds, currency) ==
    IF invalid_period(ds) THEN None ELSE
    LET field0 == CalculatingField(currency)
        calculating_field ==
            IF cls = "CompositeIndex" THEN StripAvg(field0) ELSE field0
        baseline_row == standart_row(objs, cls, ds)
    IN  IF baseline_row = NoneObj THEN None ELSE
        LET standart_value == baseline_row[calculating_field]
            data_from_db == filter_date_range(objs[cls], ds[1], ds[Len(ds)])
        IN  List([i \in 1..Len(ds) |->
                    chart_value(step_value(data_from_db, ds[i],
                                           calculating_field, standart_value),
                                standart_value)])

-----------------------------------------------------------------------------
(* CalculateMixin.grahp_specification_data                                 *)
(* kwargs is the specification in the order of its keys: a sequence of     *)
(* [key, value], key being the decimal string of a type code.              *)

\* int(graph_key)
int(graph_key) ==
    CASE graph_key = "1" -> 1
      [] graph_key = "2" -> 2
      [] graph_key = "3" -> 3
      [] graph_key = "4" -> 4
      [] graph_key = "5" -> 5
      [] graph_key = "6" -> 6
      [] graph_key = "7" -> 7

\* The pool cached for one class (lines 356-358).
period_data(objs, klass, ds) ==
    LET in_period == filter_date_range(objs[klass], ds[1], ds[Len(ds)])
    IN  IF in_period = <<>>
        THEN filter_date_lte(objs[klass], ds[Len(ds)])
        ELSE in_period

\* The loop "for graph_key in kwargs.keys()" from its i-th key on.  The
\* local standart_value is set to 0 before the loop; the loop's only
\* assignment is the augmented assignment to the name standard_value,
\* which is never bound, so reading it raises UnboundLocalError.
RECURSIVE cache_loop(_, _, _, _, _)
cache_loop(objs, ds, kwargs, i, cached_data) ==
    IF i > Len(kwargs)
    THEN [kind |-> "ok", cached_data |-> cached_data, standart_value |-> 0]
    ELSE LET graph_key == kwargs[i].key
             klass == get_class_mapping(int(graph_key))
         IN  IF klass = NoClass THEN Raise("AttributeError")
             ELSE LET pool == period_data(objs, klass, ds)
                      cached == Append(cached_data,
                                       [key |-> graph_key, qs |-> pool,
                                        value |-> kwargs[i].value])
                  IN  IF pool = <<>>
                      THEN cache_loop(objs, ds, kwargs, i + 1, cached)
                      ELSE Raise("UnboundLocalError")

\* The row used for one class on one date (lines 372-376).
data_step(qs, step_date) ==
    LET exact == first(filter_date(qs, step_date))
        before == last(filter_date_lte(qs, step_date))
        after == first(filter_date_gte(qs, step_date))
    IN  IF exact # NoneObj THEN exact
        ELSE IF before # NoneObj THEN before
        ELSE after

\* The inner loop "for graph_key in cached_data" from its k-th entry on.
RECURSIVE summ_loop(_, _, _, _, _)
summ_loop(cached_data, field, step_date, k, summ) ==
    IF k > Len(cached_data) THEN summ
    ELSE LET row == data_step(cached_data[k].qs, step_date)
         IN  IF row = NoneObj
             THEN summ_loop(cached_data, field, step_date, k + 1, summ)
             ELSE summ_loop(cached_data, field, step_date, k + 1,
                            summ + (row[field] * cached_data[k].value))

\* The loop "for step_date in dates" from its i-th date on.
RECURSIVE steps_loop(_, _, _, _, _, _)
steps_loop(cached_data, field, standart_value, ds, i, calculated_data) ==
    IF i > Len(ds) THEN List(calculated_data)
    ELSE LET summ == summ_loop(cached_data, field, ds[i], 1, 0)
         IN  IF standart_value = 0 THEN Raise("ZeroDivisionError")
             ELSE steps_loop(cached_data, field, standart_value, ds, i + 1,
                             Append(calculated_data,
                                    Frac(summ * 100, standart_value)))

grahp_specification_data(objs, ds, currency, kwargs) ==
    IF Len(ds) < 2 THEN None ELSE
    LET calculating_field == CalculatingField(currency)
        cache == cache_loop(objs, ds, kwargs, 1, <<>>)
    IN  IF cache.kind = "raise" THEN cache
        ELSE steps_loop(cache.cached_data, calculating_field,
                        cache.standart_value, ds, 1, <<>>)

-----------------------------------------------------------------------------
(* CalculateMixin.get_data_table *)

Min(a, b) == IF a <= b THEN a ELSE b

\* dt - relativedelta(years=years, months=months), for months in 0..12
MinusRelativeDelta(ord, years, months) ==
    LET dt == ord2ymd(ord)
        y0 == dt.year - years
        m0 == dt.month - months
        year == IF m0 < 1 THEN y0 - 1 ELSE y0
        month == IF m0 < 1 THEN m0 + 12 ELSE m0
        day == Min(DaysInMonth(year, month), dt.day)
    IN  IF year < MINYEAR THEN Raise("ValueError")
        ELSE DateObj(ymd2ord(year, month, day))

\* (today_data - ref) / ref * 100
Percent(today_data, ref) == Frac((today_data - ref) * 100, ref)

\* table_data with a zero reference swallowed into a 0 percentage
table_data_swallow(today_row, month_ago_row, start_year_row, year_ago_row, price_field) ==
    IF \/ today_row = NoneObj \/ month_ago_row = NoneObj
       \/ start_year_row = NoneObj \/ year_ago_row = NoneObj
    THEN Raise("AttributeError")
    ELSE LET today_data == today_row[price_field]
             pct(ref) == IF ref = 0 THEN Num(0)
                         ELSE Frac((today_data - ref) * 100, ref)
         IN  Dict([current |-> Num(today_data),
                   month_ago |-> pct(month_ago_row[price_field]),
                   start_year |-> pct(start_year_row[price_field]),
                   year_ago |-> pct(year_ago_row[price_field])])

\* Lines 409-421: the prices of the four rows and the percentages.
table_data(today_row, month_ago_row, start_year_row, year_ago_row, price_field) ==
    IF \/ today_row = NoneObj \/ month_ago_row = NoneObj
       \/ start_year_row = NoneObj \/ year_ago_row = NoneObj
    THEN Raise("AttributeError")
    ELSE LET today_data == today_row[price_field]
             month_ago_data == month_ago_row[price_field]
             start_year_data == start_year_row[price_field]
             year_ago_data == year_ago_row[price_field]
         IN  IF \/ month_ago_data = 0 \/ start_year_data = 0
                \/ year_ago_data = 0
             THEN Raise("ZeroDivisionError")
             ELSE Dict([current |-> Num(today_data),
                        month_ago |-> Percent(today_data, month_ago_data),
                        start_year |-> Percent(today_data, start_year_data),
                        year_ago |-> Percent(today_data, year_ago_data)])

\* Lines 400-403: "Data for start of the year"
start_year_row(qs, now) ==
    LET this_year == first(filter_year_gte(qs, ord2year(now)))
    IN  IF this_year # NoneObj THEN this_year
        ELSE last(filter_year_lte(qs, ord2year(now)))

get_data_table(objs, cls, now, price_field) ==
    LET month_ago == MinusRelativeDelta(now, 0, 1)
        year_ago == MinusRelativeDelta(now, 1, 0)
    IN  IF month_ago.kind = "raise" THEN month_ago
        ELSE IF year_ago.kind = "raise" THEN year_ago
        ELSE table_data(last(filter_date_lte(objs[cls], now)),
                        last(filter_date_lte(objs[cls], month_ago.ord)),
                        start_year_row(objs[cls], now),
                        last(filter_date_lte(objs[cls], year_ago.ord)),
                        price_field)

-----------------------------------------------------------------------------
(* The database.  The model classes (their fields and their Meta) are not  *)
(* part of the file; a class's table holds at most one row per date and    *)
(* its querysets come back in ascending date order.                        *)

OrderedByDate(qs) ==
    \A i \in 1..Len(qs) : \A j \in 1..Len(qs) :
        i < j => qs[i].date < qs[j].date

\* A row of a product class, and of CompositeIndex (whose fields carry no
\* "avg_" prefix); v = <<uah, usd, euro>>.
Row(cls, date, v) ==
    IF cls = "CompositeIndex"
    THEN [date |-> date, uah |-> v[1], usd |-> v[2], euro |-> v[3]]
    ELSE [date |-> date, avg_uah |-> v[1], avg_usd |-> v[2], avg_euro |-> v[3]]

\* The table whose row on days[i] has the prices prices[choice[i]], and no
\* row on days[i] when choice[i] = 0.
Table(cls, days, prices, choice) ==
    LET all == [i \in 1..Len(days) |->
                   IF choice[i] = 0 THEN NoneObj
                   ELSE Row(cls, days[i], prices[choice[i]])]
    IN  SelectSeq(all, LAMBDA r : r # NoneObj)

EmptyDatabase == [cls \in ModelClasses |-> <<>>]

-----------------------------------------------------------------------------
(* Bounds and inputs of the chart specification *)

\* 2024-01-01
Base == ymd2ord(2024, 1, 1)

\* date_from / date_to range over Base .. Base + MaxSpan
MaxSpan == 3

\* Days that may carry a row: Base, Base + 2, ..., Base + 2 * (RowDays - 1)
RowDays == 2

ChartPrices == << <<100, 50, 0>>, <<110, 60, 25>>, <<0, 25, 50>> >>

ChartDays == [i \in 1..RowDays |-> Base + (2 * (i - 1))]

BalkaTables ==
    {Table("Balka", ChartDays, ChartPrices, c) :
        c \in [1..RowDays -> 0..Len(ChartPrices)]}

UgolokTables == {<<>>, <<Row("Ugolok", Base, ChartPrices[3])>>}

CompositeIndexTables ==
    {<<>>,
     <<Row("CompositeIndex", Base, ChartPrices[1]),
       Row("CompositeIndex", Base + 1, ChartPrices[2])>>}

ChartDatabases ==
    {[EmptyDatabase EXCEPT !["Balka"] = b, !["Ugolok"] = u,
                           !["CompositeIndex"] = c] :
        b \in BalkaTables, u \in UgolokTables, c \in CompositeIndexTables}

\* The periods asked of the charts: each bound absent or a date object
ChartPeriods ==
    LET days == {NoneArg} \cup {DateObj(Base + k) : k \in 0..MaxSpan}
    IN  days \X days

NearFrom ==
    {NoneArg, EmptyStr, DateStr(2024, 1, 2), DateStr(2024, 2, 30)}
        \cup {DateObj(Base + k) : k \in 0..MaxSpan}

NearTo ==
    {NoneArg, EmptyStr, DateStr(2024, 1, 3), DateStr(2024, 13, 1)}
        \cup {DateObj(Base + k) : k \in 0..MaxSpan}

\* Arguments at the two ends of the range of datetime.date
EdgeArgs ==
    ({NoneArg, DateObj(MaxOrdinal - 1), DateObj(MaxOrdinal)}
        \X {DateObj(MaxOrdinal - 1), DateObj(MaxOrdinal)})
    \cup
    ({NoneArg, DateObj(MinOrdinal)}
        \X {DateObj(MinOrdinal), DateObj(MinOrdinal + 6),
            DateObj(MinOrdinal + 7)})

GetDatesArgs == (NearFrom \X NearTo) \cup EdgeArgs

\* 0 stands for an absent (falsy) currency; 1, 2, 3 are UAH, USD, EURO.
Currencies == 0..3

ChartClasses == {"Balka", "Ugolok", "CompositeIndex"}

Weight(key, value) == [key |-> key, value |-> value]

Specifications ==
    {<<>>,
     <<Weight("3", 1)>>,
     <<Weight("5", 1)>>,
     <<Weight("2", 60)>>,
     <<Weight("3", 2), Weight("5", 1)>>}

-----------------------------------------------------------------------------
(* The calls *)

NoCall == [op |-> "none"]

GetDatesFrom(args) ==
    \E a \in args :
        LET r == get_dates(today, a[1], a[2])
        IN  /\ call' = [op |-> "get_dates", date_from |-> a[1],
                        date_to |-> a[2]]
            /\ result' = r
            /\ dates' = IF r.kind = "list" THEN r.val ELSE dates
            /\ UNCHANGED <<objects, today>>

GetDates == GetDatesFrom(ChartPeriods)

GetDataCharts ==
    \E cls \in ChartClasses, currency \in Currencies :
        /\ call' = [op |-> "get_data_charts", cls |-> cls,
                    currency |-> currency]
        /\ result' = get_data_charts(objects, cls, dates, currency)
        /\ UNCHANGED <<objects, today, dates>>

GrahpSpecificationData ==
    \E currency \in Currencies, kwargs \in Specifications :
        /\ call' = [op |-> "grahp_specification_data",
                    currency |-> currency, kwargs |-> kwargs]
        /\ result' = grahp_specification_data(objects, dates, currency, kwargs)
        /\ UNCHANGED <<objects, today, dates>>

Init ==
    /\ objects \in ChartDatabases
    /\ \A cls \in ModelClasses : OrderedByDate(objects[cls])
    /\ today = Base + 2
    /\ dates = <<>>
    /\ call = NoCall
    /\ result = None

Next == GetDates \/ GetDataCharts \/ GrahpSpecificationData

\* The charts: a period is generated, then normalised or combined.
Spec == Init /\ [][Next]_vars

-----------------------------------------------------------------------------
(* get_dates alone, on every kind of argument *)

DatesTodays == {Base + 1, Base + 2}

InitDates ==
    /\ objects = EmptyDatabase
    /\ today \in DatesTodays
    /\ dates = <<>>
    /\ call = NoCall
    /\ result = None

GetDatesAny == GetDatesFrom(GetDatesArgs)

NextDates == GetDatesAny

SpecDates == InitDates /\ [][NextDates]_vars

-----------------------------------------------------------------------------
(* get_data_table *)

TableDays ==
    << ymd2ord(2023, 2, 28), ymd2ord(2023, 3, 1), ymd2ord(2024, 2, 29),
       ymd2ord(2024, 3, 1), ymd2ord(2025, 1, 10) >>

TablePrices == << <<100, 0, 0>>, <<120, 100, 0>>, <<0, 120, 0>> >>

TableTodays ==
    {ymd2ord(2024, 2, 29), ymd2ord(2024, 3, 31), ymd2ord(2025, 2, 10)}

TableDatabases ==
    {[EmptyDatabase EXCEPT !["Balka"] = Table("Balka", TableDays,
                                              TablePrices, c)] :
        c \in [1..Len(TableDays) -> 0..Len(TablePrices)]}

PriceFields == {"avg_uah", "avg_usd"}

GetDataTable ==
    \E cls \in {"Balka", "Ugolok"}, price_field \in PriceFields :
        /\ call' = [op |-> "get_data_table", cls |-> cls,
                    price_field |-> price_field]
        /\ result' = get_data_table(objects, cls, today, price_field)
        /\ UNCHANGED <<objects, today, dates>>

InitTable ==
    /\ objects \in TableDatabases
    /\ \A cls \in ModelClasses : OrderedByDate(objects[cls])
    /\ today \in TableTodays
    /\ dates = <<>>
    /\ call = NoCall
    /\ result = None

NextTable == GetDataTable

SpecTable == InitTable /\ [][NextTable]_vars

-----------------------------------------------------------------------------
(* Properties of get_dates *)

\* The date an argument denotes
ArgOrdinal(a) == IF a.kind = "date" THEN a.ord ELSE ymd2ord(a.y, a.m, a.d)

WellFormedArg(a) == a.kind = "str" => strptime(a).kind = "date"

\* T: date_to if supplied, else today
PeriodEnd == IF Truthy(call.date_to) THEN ArgOrdinal(call.date_to) ELSE today

\* F: date_from if supplied, else T - 7 days
PeriodStart ==
    IF Truthy(call.date_from) THEN ArgOrdinal(call.date_from)
    ELSE PeriodEnd - 7

DatesCall ==
    /\ call.op = "get_dates"
    /\ WellFormedArg(call.date_from)
    /\ WellFormedArg(call.date_to)

\* The dates F, F + 1 day, ..., T
Calendar(F, T) == [i \in 1..(T - F + 1) |-> F + i - 1]

\* C1 as stated: for every F <= T, get_dates returns exactly the dates
\* F, F + 1 day, ..., T ((T - F).days + 1 of them, ascending by one day,
\* first F, last T).
C1_EveryPeriodIsGenerated ==
    (DatesCall /\ PeriodStart <= PeriodEnd)
        => result = List(Calendar(PeriodStart, PeriodEnd))

\* C1, amended: get_dates returns exactly the dates F, F + 1 day, ..., T for
\* every F <= T with F not before date.min and T before date.max; when T is
\* date.max (and F <= T), or when date_from is omitted and T - 7 days is
\* before date.min, the call ends with OverflowError and returns nothing.
C1_DateRange ==
    (DatesCall /\ PeriodStart <= PeriodEnd)
        => IF PeriodStart < MinOrdinal \/ PeriodEnd = MaxOrdinal
           THEN result = Raise("OverflowError")
           ELSE /\ result = List(Calendar(PeriodStart, PeriodEnd))
                /\ Len(result.val) = PeriodEnd - PeriodStart + 1
                /\ result.val[1] = PeriodStart
                /\ result.val[Len(result.val)] = PeriodEnd
                /\ \A i \in 1..(Len(result.val) - 1) :
                       result.val[i + 1] = result.val[i] + 1
                /\ (~Truthy(call.date_from) => Len(result.val) = 8)

\* date_from omitted, date_to given as a string: eight dates ending on it.
C1_Witness ==
    /\ call.op = "get_dates"
    /\ call.date_from = NoneArg
    /\ call.date_to = DateStr(2024, 1, 3)
    /\ result.kind = "list"
    /\ Len(result.val) = 8
    /\ result.val[1] = ymd2ord(2023, 12, 27)
    /\ result.val[8] = ymd2ord(2024, 1, 3)

-----------------------------------------------------------------------------
(* Properties of the charts *)

ChartsCall == call.op = "get_data_charts"
CompositeCall == call.op = "grahp_specification_data"

\* C2: get_dates with date_from > date_to returns the empty sequence, and on
\* a dates sequence of length 0 or 1 both get_data_charts and
\* grahp_specification_data return None (no exception), whatever the rows,
\* the currency and the specification.
C2_InsufficientPeriod ==
    /\ (DatesCall /\ PeriodStart > PeriodEnd) => result = List(<<>>)
    /\ ((ChartsCall \/ CompositeCall) /\ Len(dates) < 2) => result = None

\* A one-day period, rows on that day, a two-category specification
C2_Witness ==
    /\ CompositeCall
    /\ Len(dates) = 1
    /\ Len(call.kwargs) = 2
    /\ filter_date(objects["Balka"], dates[1]) # <<>>
    /\ result = None

\* The rows of a class, as a set, and the usual selections among them
Rows(cls) == {objects[cls][i] : i \in 1..Len(objects[cls])}
RowsOn(cls, d) == {r \in Rows(cls) : r.date = d}
RowsAtOrBefore(cls, d) == {r \in Rows(cls) : r.date <= d}
MostRecent(S) == CHOOSE r \in S : \A q \in S : q.date <= r.date
Earliest(S) == CHOOSE r \in S : \A q \in S : r.date <= q.date

\* The value field a call reads in a row of cls
PriceOf(cls, currency, row) ==
    row[IF cls = "CompositeIndex" THEN StripAvg(CalculatingField(currency))
        ELSE CalculatingField(currency)]

ChartsOnPeriod == ChartsCall /\ Len(dates) >= 2

\* The rows at or before the window start, and the baseline B
BaselineRows == RowsAtOrBefore(call.cls, dates[1])
Baseline == PriceOf(call.cls, call.currency, MostRecent(BaselineRows))

\* C3: with len(dates) >= 2 and a non-zero baseline B, get_data_charts
\* returns a list aligned with dates whose i-th element is v*100/B when a
\* row with value v is dated dates[i], and 100 when no row is; the first
\* element is 100 whenever a row is dated dates[0].
C3_NormalizerValues ==
    (ChartsOnPeriod /\ BaselineRows # {} /\ Baseline # 0)
        => /\ result.kind = "list"
           /\ Len(result.val) = Len(dates)
           /\ \A i \in 1..Len(dates) :
                  IF RowsOn(call.cls, dates[i]) # {}
                  THEN \A r \in RowsOn(call.cls, dates[i]) :
                           result.val[i] =
                               Frac(PriceOf(call.cls, call.currency, r) * 100,
                                    Baseline)
                  ELSE result.val[i] = Num(100)
           /\ (RowsOn(call.cls, dates[1]) # {} => result.val[1] = Num(100))

\* Rows {01-01: 100, 01-03: 110} over 2024-01-01 .. 2024-01-03 give
\* [100, 100, 110].
C3_Witness ==
    /\ ChartsCall
    /\ call.cls = "Balka"
    /\ call.currency = 0
    /\ dates = <<Base, Base + 1, Base + 2>>
    /\ objects["Balka"] = <<Row("Balka", Base, ChartPrices[1]),
                            Row("Balka", Base + 2, ChartPrices[2])>>
    /\ result = List(<<Num(100), Num(100), Num(110)>>)

\* C4: with len(dates) >= 2 and a baseline of 0, get_data_charts raises
\* nothing and returns the raw step values: the value of the row dated
\* dates[i], or the baseline 0 when no row is.
C4_ZeroBaseline ==
    (ChartsOnPeriod /\ BaselineRows # {} /\ Baseline = 0)
        => /\ result.kind = "list"
           /\ Len(result.val) = Len(dates)
           /\ \A i \in 1..Len(dates) :
                  IF RowsOn(call.cls, dates[i]) # {}
                  THEN \A r \in RowsOn(call.cls, dates[i]) :
                           result.val[i] =
                               Num(PriceOf(call.cls, call.currency, r))
                  ELSE result.val[i] = Num(0)

\* A zero baseline, a day without a row and a day whose row has a
\* non-zero value
C4_Witness ==
    /\ ChartsOnPeriod
    /\ BaselineRows # {}
    /\ Baseline = 0
    /\ result.kind = "list"
    /\ \E i \in 1..Len(dates) : result.val[i] = Num(0)
                                  /\ RowsOn(call.cls, dates[i]) = {}
    /\ \E i \in 1..Len(dates) : result.val[i].num > 0

\* C10: with len(dates) >= 2, get_data_charts returns None when the class
\* has no row at or before dates[0], even if it has rows later in the
\* window; otherwise every value it returns for a dated row is scaled by
\* the most recent row at or before dates[0].
C10_BaselineSelection ==
    ChartsOnPeriod
        => IF BaselineRows = {} THEN result = None
           ELSE /\ result.kind = "list"
                /\ \A i \in 1..Len(dates) :
                       \A r \in RowsOn(call.cls, dates[i]) :
                           LET v == PriceOf(call.cls, call.currency, r)
                           IN  result.val[i] =
                                   IF Baseline = 0 THEN Num(v)
                                   ELSE Frac(v * 100, Baseline)

\* No row at or before the window start, a row inside the window
C10_Witness ==
    /\ ChartsOnPeriod
    /\ BaselineRows = {}
    /\ \E r \in Rows(call.cls) :
           r.date > dates[1] /\ r.date <= dates[Len(dates)]
    /\ result = None

-----------------------------------------------------------------------------
(* Properties of the composite *)

CompositeOnPeriod == CompositeCall /\ Len(dates) >= 2

\* The pool of the k-th category of the specification, as a set of rows
PoolRows(k) ==
    LET qs == period_data(objects,
                          get_class_mapping(int(call.kwargs[k].key)), dates)
    IN  {qs[i] : i \in 1..Len(qs)}

CompositeField == CalculatingField(call.currency)

\* (value of the first row of the k-th pool) * weight; 0 for an empty pool
BaseTerm(k) ==
    IF PoolRows(k) = {} THEN 0
    ELSE Earliest(PoolRows(k))[CompositeField] * call.kwargs[k].value

\* The fallback chain: exact match, else most recent row at or before d,
\* else earliest row at or after d
ChainRow(S, d) ==
    IF {r \in S : r.date = d} # {} THEN MostRecent({r \in S : r.date = d})
    ELSE IF {r \in S : r.date <= d} # {}
         THEN MostRecent({r \in S : r.date <= d})
         ELSE Earliest({r \in S : r.date >= d})

DateTerm(k, d) ==
    IF PoolRows(k) = {} THEN 0
    ELSE ChainRow(PoolRows(k), d)[CompositeField] * call.kwargs[k].value

RECURSIVE SumTo(_, _)
SumTo(term(_), n) == IF n = 0 THEN 0 ELSE SumTo(term, n - 1) + term(n)

\* D, computed once for the call
Denominator == SumTo(BaseTerm, Len(call.kwargs))

CompositeAt(d) ==
    LET term(k) == DateTerm(k, d)
    IN  Frac(SumTo(term, Len(call.kwargs)) * 100, Denominator)

\* C5: with len(dates) >= 2 and a non-zero denominator D,
\* grahp_specification_data returns the list aligned with dates whose
\* element for date d is (sum of value_c(d) * weight_c) * 100 / D.
C5_CompositeValue ==
    (CompositeOnPeriod /\ Denominator # 0)
        => result = List([i \in 1..Len(dates) |-> CompositeAt(dates[i])])

\* C6: with len(dates) >= 2 and a specification holding one category at
\* weight 1, grahp_specification_data returns what get_data_charts returns
\* for that category on the same dates and currency.
C6_SingleCategoryIsNormalizer ==
    (CompositeOnPeriod /\ Len(call.kwargs) = 1 /\ call.kwargs[1].value = 1)
        => result = get_data_charts(objects,
                                    get_class_mapping(int(call.kwargs[1].key)),
                                    dates, call.currency)

\* C7: with len(dates) >= 2 and a denominator of 0 (no category has a row,
\* the specification is empty, or the weighted first values sum to 0),
\* grahp_specification_data fails with a division-by-zero error.
C7_ZeroDenominator ==
    (CompositeOnPeriod /\ Denominator = 0)
        => result = Raise("ZeroDivisionError")

-----------------------------------------------------------------------------
(* Properties of the table *)

TableCall == call.op = "get_data_table"

Price(row) == row[call.price_field]

MonthAgo == MinusRelativeDelta(today, 0, 1).ord
YearAgo == MinusRelativeDelta(today, 1, 0).ord

TodayRows == RowsAtOrBefore(call.cls, today)
MonthAgoRows == RowsAtOrBefore(call.cls, MonthAgo)
YearAgoRows == RowsAtOrBefore(call.cls, YearAgo)

\* Start of year as specified: the first row of the current calendar year,
\* else the most recent row at or before the end of the current year.
ThisYearRows == {r \in Rows(call.cls) : ord2year(r.date) = ord2year(today)}
ToYearEndRows == RowsAtOrBefore(call.cls, ymd2ord(ord2year(today), 12, 31))
StartOfYearRow ==
    IF ThisYearRows # {} THEN Earliest(ThisYearRows)
    ELSE MostRecent(ToYearEndRows)

Delta(cur, ref) == Frac((cur - ref) * 100, ref)

\* C8: when every anchor resolves to a row with a non-zero value,
\* get_data_table returns month_ago, start_year and year_ago, each equal to
\* (cur - ref) / ref * 100 for its reference row.
C8_PeriodDeltas ==
    (/\ TableCall
     /\ TodayRows # {} /\ MonthAgoRows # {} /\ YearAgoRows # {}
     /\ Price(MostRecent(TodayRows)) # 0
     /\ Price(MostRecent(MonthAgoRows)) # 0
     /\ Price(StartOfYearRow) # 0
     /\ Price(MostRecent(YearAgoRows)) # 0)
        => LET cur == Price(MostRecent(TodayRows))
           IN  /\ result.kind = "dict"
               /\ result.val.month_ago =
                      Delta(cur, Price(MostRecent(MonthAgoRows)))
               /\ result.val.start_year = Delta(cur, Price(StartOfYearRow))
               /\ result.val.year_ago =
                      Delta(cur, Price(MostRecent(YearAgoRows)))

\* The row the start-of-year lookup of the call selects
FromThisYearRows ==
    {r \in Rows(call.cls) : ord2year(r.date) >= ord2year(today)}
StartLookupRow ==
    IF FromThisYearRows # {} THEN Earliest(FromThisYearRows)
    ELSE MostRecent(Rows(call.cls))

AllAnchorsResolve ==
    /\ TodayRows # {} /\ MonthAgoRows # {} /\ YearAgoRows # {}
    /\ Rows(call.cls) # {}

\* Some lookup that found a row found one whose value is exactly 0
SomeReferenceIsZero ==
    \/ MonthAgoRows # {} /\ Price(MostRecent(MonthAgoRows)) = 0
    \/ YearAgoRows # {} /\ Price(MostRecent(YearAgoRows)) = 0
    \/ Rows(call.cls) # {} /\ Price(StartLookupRow) = 0

\* C9 as stated: a result only when all four anchors resolve and the three
\* references are non-zero; a missing anchor fails with the missing-row
\* error; a reference that is exactly 0 fails with a division-by-zero error.
C9_EveryZeroReferenceDivides ==
    TableCall
        => /\ result.kind \in {"dict", "raise"}
           /\ (result.kind = "dict"
                  => AllAnchorsResolve /\ ~SomeReferenceIsZero)
           /\ (~AllAnchorsResolve => result = Raise("AttributeError"))
           /\ (SomeReferenceIsZero => result = Raise("ZeroDivisionError"))

\* C9, amended: a result only when all four anchors resolve and the three
\* references are non-zero; if any anchor lookup finds no row the call
\* fails with the missing-row error (AttributeError), whatever the other
\* references are; if all four resolve and a reference is exactly 0 it
\* fails with ZeroDivisionError; no partial or default result is returned.
C9_FailuresSurfaced ==
    TableCall
        => /\ result.kind \in {"dict", "raise"}
           /\ (result.kind = "dict"
                  => AllAnchorsResolve /\ ~SomeReferenceIsZero)
           /\ (~AllAnchorsResolve => result = Raise("AttributeError"))
           /\ ((AllAnchorsResolve /\ SomeReferenceIsZero)
                  => result = Raise("ZeroDivisionError"))

\* All four anchors resolve, the current value is non-zero and the
\* year-ago reference is 0
C9_Witness ==
    /\ TableCall
    /\ AllAnchorsResolve
    /\ Price(MostRecent(TodayRows)) # 0
    /\ Price(MostRecent(YearAgoRows)) = 0
    /\ result = Raise("ZeroDivisionError")

=============================================================================
